---- MODULE Spec2Model ----
\* Model of dogswatch/pkg/intent: the Intent value, its predicates
\* (Waiting, Realized, InProgress, Stuck, Terminal, Actionable, ...) and its
\* transforms (Clone, Projected, Reset, Given).
\*
\* Go pointers are modelled with an explicit memory: m.h is the heap (a
\* sequence of Intent values, an address is an index), m.w is the set of
\* addresses whose fields were assigned.  A method takes the memory and the
\* address of its receiver; a method that allocates returns [m, r].
EXTENDS Integers, Sequences, FiniteSets, TLC

VARIABLES intent, arg, op, retB, retI, retA, written

vars == <<intent, arg, op, retB, retI, retA, written>>

-----------------------------------------------------------------------------
\* Bounds of the model.

\* number of distinct node names
MaxNames == 2
\* number of tokens outside every enumeration of package marker
MaxBogus == 1

NamePool == <<"node-a", "node-b", "node-c", "node-d">>
BogusPool == <<"bogus-1", "bogus-2", "bogus-3">>

NodeNames == {NamePool[k] : k \in 1..MaxNames}
BogusTokens == {BogusPool[k] : k \in 1..MaxBogus}

-----------------------------------------------------------------------------
\* Package marker (imported, intent.go:3-5): tokens and annotation keys.

NodeActionWanted == "thar.amazonaws.com/action-wanted"
NodeActionActive == "thar.amazonaws.com/action-active"
NodeActionActiveState == "thar.amazonaws.com/action-state"
UpdateAvailableKey == "thar.amazonaws.com/update-available"

NodeActionUnknown == "unknown"
NodeActionReset == "reset-state"
NodeActionStablize == "stabilize"
NodeActionPrepareUpdate == "prepare-update"
NodeActionPerformUpdate == "perform-update"
NodeActionRebootUpdate == "reboot-update"

NodeStateUnknown == "unknown"
NodeStateReady == "ready"
NodeStateError == "error"
NodeStateBusy == "busy"

NodeUpdateAvailable == "true"
NodeUpdateUnavailable == "false"

\* The zero value of marker.NodeAction (a string).
ZeroAction == ""

\* The forward-progression list of the Progression Table.
Progression == <<NodeActionReset, NodeActionStablize, NodeActionPrepareUpdate,
                 NodeActionPerformUpdate, NodeActionRebootUpdate>>

\* Position of an action in the forward-progression list, 0 when absent.
ProgressionIndex(action) ==
    IF \E k \in 1..Len(Progression) : Progression[k] = action
    THEN CHOOSE k \in 1..Len(Progression) : Progression[k] = action
    ELSE 0

\* calculateNext that wraps around after the last element.
calculateNext_WrapAround(action) ==
    IF action = NodeActionUnknown
    THEN [next |-> Progression[1], err |-> FALSE]
    ELSE IF ProgressionIndex(action) = 0
    THEN [next |-> ZeroAction, err |-> TRUE]
    ELSE [next |-> Progression[(ProgressionIndex(action) % Len(Progression)) + 1],
          err |-> FALSE]

\* calculateNext: the successor of an action and the UnrecognizedAction error.
calculateNext(action) ==
    IF action = NodeActionUnknown
    THEN [next |-> Progression[1], err |-> FALSE]
    ELSE IF ProgressionIndex(action) = 0
    THEN [next |-> ZeroAction, err |-> TRUE]
    ELSE IF ProgressionIndex(action) = Len(Progression)
    THEN [next |-> action, err |-> FALSE]
    ELSE [next |-> Progression[ProgressionIndex(action) + 1], err |-> FALSE]

-----------------------------------------------------------------------------
\* The Intent value and the inputs of the model.

ActionTokens == {"", NodeActionUnknown, NodeActionReset, NodeActionStablize,
                 NodeActionPrepareUpdate, NodeActionPerformUpdate,
                 NodeActionRebootUpdate} \cup BogusTokens
StateTokens == {"", NodeStateUnknown, NodeStateReady, NodeStateError,
                NodeStateBusy} \cup BogusTokens
UpdateTokens == {"", NodeUpdateAvailable, NodeUpdateUnavailable}

Intent == [NodeName : NodeNames, Wanted : ActionTokens, Active : ActionTokens,
           State : StateTokens, UpdateAvailable : UpdateTokens]

\* A memory holding one Intent, at address 1.
Mem(i) == [h |-> <<i>>, w |-> {}]

\* Sequencing of statements: v is evaluated once, then Do continues with its
\* value (x := v; Do(x)).
Then(v, Do(_)) == CHOOSE result \in {Do(x) : x \in {v}} : TRUE

\* Allocation of a new Intent value; r is its address.
Alloc(m, v) == [m |-> [h |-> Append(m.h, v), w |-> m.w], r |-> Len(m.h) + 1]

\* Go map lookup: a missing key yields the zero string.
MapGet(annos, key) == IF key \in DOMAIN annos THEN annos[key] ELSE ""

-----------------------------------------------------------------------------
\* Accessors.

GetName(m, a) == m.h[a].NodeName

GetAnnotations(m, a) ==
    (NodeActionWanted :> m.h[a].Wanted)
    @@ (NodeActionActive :> m.h[a].Active)
    @@ (NodeActionActiveState :> m.h[a].State)
    @@ (UpdateAvailableKey :> m.h[a].UpdateAvailable)

GetLabels(m, a) == (UpdateAvailableKey :> m.h[a].UpdateAvailable)

\* Given with the Wanted and Active annotations read from each other's key.
Given_SwappedKeys(m, a) ==
    Then(GetAnnotations(m, a), LAMBDA annos :
        Alloc(m, [NodeName |-> GetName(m, a),
                  Active |-> MapGet(annos, NodeActionWanted),
                  Wanted |-> MapGet(annos, NodeActionActive),
                  State |-> MapGet(annos, NodeActionActiveState),
                  UpdateAvailable |-> MapGet(annos, UpdateAvailableKey)]))

\* Given builds a new Intent from the input's name and annotations.
Given(m, a) ==
    Then(GetAnnotations(m, a), LAMBDA annos :
        Alloc(m, [NodeName |-> GetName(m, a),
                  Active |-> MapGet(annos, NodeActionActive),
                  Wanted |-> MapGet(annos, NodeActionWanted),
                  State |-> MapGet(annos, NodeActionActiveState),
                  UpdateAvailable |-> MapGet(annos, UpdateAvailableKey)]))

\* Clone has a value receiver: the receiver is copied, and Given reads the copy.
Clone(m, a) ==
    Then(Alloc(m, m.h[a]), LAMBDA c : Given(c.m, c.r))

-----------------------------------------------------------------------------
\* Predicates that only read the receiver.

\* Waiting whose default case also reports done.
Waiting_DefaultDone(m, a) ==
    CASE m.h[a].State = NodeStateReady -> TRUE
      [] m.h[a].State \in {"", NodeStateUnknown} -> TRUE
      [] m.h[a].State = NodeStateError -> TRUE
      [] OTHER -> TRUE

Waiting(m, a) ==
    CASE m.h[a].State = NodeStateReady -> TRUE
      [] m.h[a].State \in {"", NodeStateUnknown} -> TRUE
      [] m.h[a].State = NodeStateError -> TRUE
      [] OTHER -> FALSE

Intrusive(m, a) == m.h[a].Wanted = NodeActionRebootUpdate

Errored(m, a) == m.h[a].State = NodeStateError

Realized(m, a) ==
    LET realized == m.h[a].Wanted = m.h[a].Active
        successful == ~Errored(m, a)
    IN  realized /\ successful /\ Waiting(m, a)

\* isInProgress that also accepts Unknown.
isInProgress_WithUnknown(field) ==
    field \in {NodeActionUnknown, NodeActionReset, NodeActionStablize,
               NodeActionPrepareUpdate, NodeActionPerformUpdate,
               NodeActionRebootUpdate}

isInProgress(field) ==
    field \in {NodeActionReset, NodeActionStablize, NodeActionPrepareUpdate,
               NodeActionPerformUpdate, NodeActionRebootUpdate}

HasUpdateAvailable(m, a) == m.h[a].UpdateAvailable = NodeUpdateAvailable

\* inUnknownState that forgets the unset State.
inUnknownState_NoEmpty(m, a) == m.h[a].State = NodeStateUnknown

inUnknownState(m, a) ==
    m.h[a].State = "" \/ m.h[a].State = NodeStateUnknown

\* Terminal that discards the error of calculateNext.
Terminal_IgnoreErr(m, a) ==
    Then(calculateNext(m.h[a].Wanted), LAMBDA c :
        c.next = m.h[a].Wanted /\ m.h[a].Wanted = m.h[a].Active)

Terminal(m, a) ==
    Then(calculateNext(m.h[a].Wanted), LAMBDA c :
        IF c.err
        THEN FALSE
        ELSE c.next = m.h[a].Wanted /\ m.h[a].Wanted = m.h[a].Active)

-----------------------------------------------------------------------------
\* Transforms.

\* reset that leaves Active as it was.
reset_KeepActive(m, a) ==
    [h |-> [m.h EXCEPT ![a].Wanted = NodeActionUnknown,
                       ![a].State = NodeStateUnknown],
     w |-> m.w \cup {a}]

\* reset that clears the three fields to their zero values.
reset_ZeroValues(m, a) ==
    [h |-> [m.h EXCEPT ![a].Wanted = "",
                       ![a].Active = "",
                       ![a].State = ""],
     w |-> m.w \cup {a}]

\* reset assigns the origin to the Intent at address a.
reset(m, a) ==
    [h |-> [m.h EXCEPT ![a].Wanted = NodeActionUnknown,
                       ![a].Active = NodeActionUnknown,
                       ![a].State = NodeStateUnknown],
     w |-> m.w \cup {a}]

\* The assignment taking the successor of Active instead of Wanted.
AssignNext_FromActive(m, p) ==
    Then(calculateNext(m.h[p].Active), LAMBDA nx :
        [m |-> [h |-> [m.h EXCEPT ![p].Wanted = nx.next], w |-> m.w \cup {p}],
         r |-> p])

\* p.Wanted, _ = calculateNext(p.Wanted)
AssignNext(m, p) ==
    Then(calculateNext(m.h[p].Wanted), LAMBDA nx :
        [m |-> [h |-> [m.h EXCEPT ![p].Wanted = nx.next], w |-> m.w \cup {p}],
         r |-> p])

\* Projected that works on the receiver instead of a clone.
Projected_NoClone(m, a) ==
    Then(IF inUnknownState(m, a) THEN reset(m, a) ELSE m, LAMBDA m1 :
        AssignNext(m1, a))

\* Projected that resets whatever the State.
Projected_AlwaysReset(m, a) ==
    Then(Clone(m, a), LAMBDA c :
    Then(reset(c.m, c.r), LAMBDA m1 :
        AssignNext(m1, c.r)))

\* Projected that never resets.
Projected_NoReset(m, a) ==
    Then(Clone(m, a), LAMBDA c : AssignNext(c.m, c.r))

Projected(m, a) ==
    Then(Clone(m, a), LAMBDA c :
    Then(IF inUnknownState(c.m, c.r) THEN reset(c.m, c.r) ELSE c.m, LAMBDA m1 :
        AssignNext(m1, c.r)))

\* projectActive that projects from Wanted instead of Active.
projectActive_FromWanted(m, a) ==
    Then(Clone(m, a), LAMBDA c : Projected(c.m, c.r))

projectActive(m, a) ==
    Then(Clone(m, a), LAMBDA c :
    Then([h |-> [c.m.h EXCEPT ![c.r].Wanted = c.m.h[a].Active],
          w |-> c.m.w \cup {c.r}], LAMBDA m1 :
        Projected(m1, c.r)))

Reset(m, a) ==
    Then(Clone(m, a), LAMBDA c :
    Then(reset(c.m, c.r), LAMBDA m1 :
        Projected(m1, c.r)))

-----------------------------------------------------------------------------
\* Predicates that project.  && and || evaluate their right operand only
\* when the left one does not decide.

\* InProgress that does not look at Realized.
InProgress_NoRealizedCheck(m, a) ==
    Then(projectActive(m, a), LAMBDA pa :
        LET pendingNext == pa.m.h[pa.r].Wanted = pa.m.h[a].Wanted
        IN  [m |-> pa.m, r |-> isInProgress(pa.m.h[a].Active) /\ pendingNext])

InProgress(m, a) ==
    Then(~Realized(m, a), LAMBDA notRealized :
    Then(IF notRealized THEN projectActive(m, a) ELSE [m |-> m, r |-> a],
         LAMBDA pa :
        LET pendingNext ==
                notRealized /\ pa.m.h[pa.r].Wanted = pa.m.h[a].Wanted
        IN  [m |-> pa.m, r |-> isInProgress(pa.m.h[a].Active) /\ pendingNext]))

Stuck(m, a) ==
    Then(m.h[a].Active # m.h[a].Wanted, LAMBDA differ :
    Then(IF differ THEN InProgress(m, a) ELSE [m |-> m, r |-> FALSE],
         LAMBDA ip :
    Then(projectActive(ip.m, a), LAMBDA pa :
        LET inconsistentProgress == differ /\ ~ip.r
            invalidProgress == ip.m.h[a].Wanted # pa.m.h[pa.r].Wanted
        IN  [m |-> pa.m, r |-> inconsistentProgress \/ invalidProgress])))

\* Actionable that does not look at Terminal.
Actionable_NoTerminal(m, a) ==
    Then(Stuck(m, a), LAMBDA stuck :
        LET canProgress == Waiting(m, a) \/ Realized(m, a)
            unknown == inUnknownState(m, a)
        IN  [m |-> stuck.m, r |-> canProgress \/ unknown \/ stuck.r])

Actionable(m, a) ==
    Then(Stuck(m, a), LAMBDA stuck :
        LET canProgress == (Waiting(m, a) \/ Realized(m, a)) /\ ~Terminal(m, a)
            unknown == inUnknownState(m, a)
        IN  [m |-> stuck.m, r |-> canProgress \/ unknown \/ stuck.r])

-----------------------------------------------------------------------------
\* The state machine: an Intent built by Given, and one call per step.  intent
\* is the receiver's value after the call, arg its value before the call,
\* retB/retI the value returned (retA and retB for calculateNext), written the
\* addresses assigned by the call (the receiver is at address 1).

Init ==
    /\ intent \in Intent
    /\ arg = intent
    /\ op = "Given"
    /\ retB = FALSE
    /\ retI = intent
    /\ retA = ZeroAction
    /\ written = {}

\* A call of a method returning *Intent.
ReturnIntent(name, res) ==
    /\ intent' = res.m.h[1]
    /\ arg' = intent
    /\ op' = name
    /\ retB' = FALSE
    /\ retI' = res.m.h[res.r]
    /\ retA' = ZeroAction
    /\ written' = res.m.w

\* A call of a method returning bool, which left the memory m.
ReturnBool(name, m, b) ==
    /\ intent' = m.h[1]
    /\ arg' = intent
    /\ op' = name
    /\ retB' = b
    /\ retI' = intent
    /\ retA' = ZeroAction
    /\ written' = m.w

CallGiven ==
    \E res \in {Given(Mem(intent), 1)} : ReturnIntent("GivenAgain", res)
CallClone ==
    \E res \in {Clone(Mem(intent), 1)} : ReturnIntent("Clone", res)
CallProjected ==
    \E res \in {Projected(Mem(intent), 1)} : ReturnIntent("Projected", res)
CallReset ==
    \E res \in {Reset(Mem(intent), 1)} : ReturnIntent("Reset", res)
CallWaiting ==
    \E m \in {Mem(intent)} : ReturnBool("Waiting", m, Waiting(m, 1))
CallErrored ==
    \E m \in {Mem(intent)} : ReturnBool("Errored", m, Errored(m, 1))
CallIntrusive ==
    \E m \in {Mem(intent)} : ReturnBool("Intrusive", m, Intrusive(m, 1))
CallHasUpdateAvailable ==
    \E m \in {Mem(intent)} :
        ReturnBool("HasUpdateAvailable", m, HasUpdateAvailable(m, 1))
CallRealized ==
    \E m \in {Mem(intent)} : ReturnBool("Realized", m, Realized(m, 1))
CallTerminal ==
    \E m \in {Mem(intent)} : ReturnBool("Terminal", m, Terminal(m, 1))
CallInProgress ==
    \E res \in {InProgress(Mem(intent), 1)} :
        ReturnBool("InProgress", res.m, res.r)
CallStuck ==
    \E res \in {Stuck(Mem(intent), 1)} : ReturnBool("Stuck", res.m, res.r)
CallActionable ==
    \E res \in {Actionable(Mem(intent), 1)} :
        ReturnBool("Actionable", res.m, res.r)

\* calculateNext on the Intent's Wanted, as Projected and Terminal call it;
\* retA is the Action returned, retB whether an error was returned.
CallCalculateNext ==
    \E c \in {calculateNext(intent.Wanted)} :
        /\ intent' = intent
        /\ arg' = intent
        /\ op' = "calculateNext"
        /\ retB' = c.err
        /\ retI' = intent
        /\ retA' = c.next
        /\ written' = {}

Next ==
    \/ CallCalculateNext
    \/ CallGiven
    \/ CallClone
    \/ CallProjected
    \/ CallReset
    \/ CallWaiting
    \/ CallErrored
    \/ CallIntrusive
    \/ CallHasUpdateAvailable
    \/ CallRealized
    \/ CallTerminal
    \/ CallInProgress
    \/ CallStuck
    \/ CallActionable

Spec == Init /\ [][Next]_vars

-----------------------------------------------------------------------------
\* A rollout: the orchestrator resets the Intent it read, then the agent
\* completes the commanded step and the orchestrator projects, in turn.  Here
\* intent is the Intent of the node (the value last written back).

\* The Intent a transform returned becomes the node's Intent.
WriteBack(name, res) ==
    /\ intent' = res.m.h[res.r]
    /\ arg' = intent
    /\ op' = name
    /\ retB' = FALSE
    /\ retI' = res.m.h[res.r]
    /\ retA' = ZeroAction
    /\ written' = res.m.w

OrchestratorReset ==
    /\ op = "Given"
    /\ \E res \in {Reset(Mem(intent), 1)} : WriteBack("Orchestrator.Reset", res)

AgentComplete ==
    /\ op \in {"Orchestrator.Reset", "Orchestrator.Projected"}
    /\ intent' = [intent EXCEPT !.Active = intent.Wanted,
                                !.State = NodeStateReady]
    /\ arg' = intent
    /\ op' = "Agent.Complete"
    /\ UNCHANGED <<retB, retI, retA, written>>

OrchestratorProjected ==
    /\ op = "Agent.Complete"
    /\ \E res \in {Projected(Mem(intent), 1)} :
            WriteBack("Orchestrator.Projected", res)

RunNext ==
    \/ OrchestratorReset
    \/ AgentComplete
    \/ OrchestratorProjected

RunSpec == Init /\ [][RunNext]_vars

\* Once the orchestrator has reset the Intent, the rollout goes on: the agent
\* and the orchestrator keep taking their turns.
RunLive == RunSpec /\ WF_vars(AgentComplete) /\ WF_vars(OrchestratorProjected)

-----------------------------------------------------------------------------
\* Any sequence of transforms and agent reports: the Intent a transform
\* returns is written back and read again; the agent reports an action of the
\* enumeration and a State.

KnownActions == {NodeActionUnknown, NodeActionReset, NodeActionStablize,
                 NodeActionPrepareUpdate, NodeActionPerformUpdate,
                 NodeActionRebootUpdate}

SeqProjected ==
    \E res \in {Projected(Mem(intent), 1)} : WriteBack("Seq.Projected", res)

SeqReset ==
    \E res \in {Reset(Mem(intent), 1)} : WriteBack("Seq.Reset", res)

SeqClone ==
    \E res \in {Clone(Mem(intent), 1)} : WriteBack("Seq.Clone", res)

AgentReport ==
    \E active \in KnownActions, state \in StateTokens :
        /\ intent' = [intent EXCEPT !.Active = active, !.State = state]
        /\ arg' = intent
        /\ op' = "Agent.Report"
        /\ retB' = FALSE
        /\ retI' = intent'
        /\ retA' = ZeroAction
        /\ written' = {}

SeqNext ==
    \/ SeqProjected
    \/ SeqReset
    \/ SeqClone
    \/ AgentReport

SeqSpec == Init /\ [][SeqNext]_vars

-----------------------------------------------------------------------------
\* Properties.  arg is the Intent a method was called on, retB/retI what the
\* call returned.

\* The Progression Table has a successor for the action (no UnrecognizedAction).
Recognized(action) == ~calculateNext(action).err

\* wanted is the Progression Table successor of active.
IsSuccessor(wanted, active) ==
    Recognized(active) /\ calculateNext(active).next = wanted

ArgUnknownState == arg.State \in {"", NodeStateUnknown}

\* C1: for every Intent, Realized() true implies Stuck() false; in particular
\* Wanted == Active == PerformUpdate with State == Ready is Realized and not
\* Stuck.
C1_RealizedNotStuck ==
    (op = "Stuck" /\ Realized(Mem(arg), 1)) => retB = FALSE

\* C2: when the Progression Table lookup fails inside Projected() (State is
\* neither "" nor Unknown, Wanted is not in the table), the returned Intent's
\* Wanted equals the receiver's Wanted.
C2_WantedUnchanged ==
    (op = "Projected" /\ ~ArgUnknownState /\ ~Recognized(arg.Wanted))
        => retI.Wanted = arg.Wanted

\* C3: Terminal() is true exactly when the successor of Wanted is Wanted and
\* Wanted == Active, that is exactly when Wanted == Active == RebootUpdate;
\* for a Wanted outside the table Terminal() is false.
C3_Terminal ==
    op = "Terminal" =>
        /\ retB = (IsSuccessor(arg.Wanted, arg.Wanted) /\ arg.Wanted = arg.Active)
        /\ retB = (arg.Wanted = NodeActionRebootUpdate
                   /\ arg.Active = NodeActionRebootUpdate)
        /\ (~Recognized(arg.Wanted) => retB = FALSE)

C3_Witness ==
    /\ op = "Terminal"
    /\ retB = TRUE
    /\ arg.Wanted = NodeActionRebootUpdate

\* Terminal() was called on an Intent whose Wanted and Active are the same
\* token outside the table, and answered false.
C3_WitnessUnrecognized ==
    /\ op = "Terminal"
    /\ retB = FALSE
    /\ ~Recognized(arg.Wanted)
    /\ arg.Wanted = arg.Active

ArgTailConfirmed ==
    /\ arg.Wanted = NodeActionRebootUpdate
    /\ arg.Active = NodeActionRebootUpdate
    /\ arg.State = NodeStateReady

\* C4: an Intent with Wanted == Active == RebootUpdate and State == Ready is
\* Realized and Terminal and not Actionable.
C4_TailNotActionable ==
    ArgTailConfirmed =>
        /\ (op = "Realized" => retB = TRUE)
        /\ (op = "Terminal" => retB = TRUE)
        /\ (op = "Actionable" => retB = FALSE)

C4_Witness ==
    /\ ArgTailConfirmed
    /\ op = "Actionable"
    /\ retB = FALSE

\* C5: an Intent whose State is "" or Unknown is Waiting and Actionable, and
\* Projected() returns Wanted == Reset, Active == Unknown, State == Unknown.
C5_UnknownState ==
    ArgUnknownState =>
        /\ (op = "Waiting" => retB = TRUE)
        /\ (op = "Actionable" => retB = TRUE)
        /\ (op = "Projected" =>
                /\ retI.Wanted = NodeActionReset
                /\ retI.Active = NodeActionUnknown
                /\ retI.State = NodeStateUnknown)

C5_Witness ==
    /\ op = "Projected"
    /\ arg.State = ""
    /\ arg.Wanted = NodeActionPerformUpdate
    /\ arg.Active = NodeActionPrepareUpdate
    /\ retI.Wanted = NodeActionReset

\* What C6 concludes of an Intent.
C6_Conclusion ==
    /\ (op = "Stuck" => retB = TRUE)
    /\ (arg.State = NodeStateError =>
            /\ (op = "Errored" => retB = TRUE)
            /\ (op = "Waiting" => retB = TRUE))

C7_Reset ==
    op = "Reset" =>
        retI = [NodeName |-> arg.NodeName,
                Wanted |-> NodeActionReset,
                Active |-> NodeActionUnknown,
                State |-> NodeStateUnknown,
                UpdateAvailable |-> arg.UpdateAvailable]

C7_Witness ==
    /\ op = "Reset"
    /\ ~Recognized(arg.Wanted)
    /\ arg.Active = NodeActionRebootUpdate
    /\ arg.State = NodeStateError
    /\ retI.Wanted = NodeActionReset

PublicOps == {"Clone", "Projected", "Reset", "Stuck", "InProgress", "Realized",
              "Actionable", "Terminal", "Waiting"}

\* C9: no public operation mutates its receiver: after the call the receiver's
\* five fields are what they were, and no field of the receiver was assigned
\* (reset and the Wanted overwrites only touch clones).
C9_ReceiverUnchanged ==
    op \in PublicOps => (intent = arg /\ 1 \notin written)

\* Projected() ran reset and overwrote Wanted, on a clone.
C9_Witness ==
    /\ op = "Projected"
    /\ ArgUnknownState
    /\ arg.Wanted = NodeActionPerformUpdate
    /\ retI # arg
    /\ written # {}
    /\ intent = arg

\* C10: Given applied to an input with an Intent's name and annotations yields
\* an Intent with the same five fields, and so does Clone().
C10_RoundTrip ==
    op \in {"GivenAgain", "Clone"} => retI = arg

C10_Witness ==
    /\ op = "GivenAgain"
    /\ arg.Wanted = NodeActionStablize
    /\ arg.Active \in BogusTokens
    /\ arg.State = ""
    /\ arg.UpdateAvailable = NodeUpdateAvailable
    /\ retI = arg

RunStarted == op # "Given"

\* Wanted moves along the forward-progression list one element at a time.
C8_InOrder ==
    /\ (op' = "Orchestrator.Reset" => intent'.Wanted = NodeActionReset)
    /\ (op' = "Agent.Complete" => intent'.Wanted = intent.Wanted)
    /\ (op' = "Orchestrator.Projected" =>
            /\ ProgressionIndex(intent.Wanted) >= 1
            /\ ProgressionIndex(intent'.Wanted) =
                   IF ProgressionIndex(intent.Wanted) < Len(Progression)
                   THEN ProgressionIndex(intent.Wanted) + 1
                   ELSE Len(Progression))

\* Once Terminal, the Intent stays Terminal with Wanted == RebootUpdate.
C8_Absorbed ==
    (RunStarted /\ Terminal(Mem(intent), 1)) =>
        (Terminal(Mem(intent'), 1) /\ intent'.Wanted = NodeActionRebootUpdate)

\* C8: from Reset(), alternating the agent completing the commanded step with
\* Projected(), Wanted takes the values Reset, Stabilize, PrepareUpdate,
\* PerformUpdate, RebootUpdate in that order, the Intent eventually is
\* Terminal, and from then on Projected() leaves Wanted == RebootUpdate and
\* the Intent Terminal.
C8_Rollout ==
    /\ [][C8_InOrder]_vars
    /\ (RunStarted ~> Terminal(Mem(intent), 1))
    /\ [][C8_Absorbed]_vars

\* Projected() was applied to a Terminal Intent of the rollout.
C8_Witness ==
    /\ op = "Orchestrator.Projected"
    /\ Terminal(Mem(arg), 1)
    /\ Terminal(Mem(intent), 1)
    /\ intent.Wanted = NodeActionRebootUpdate

-----------------------------------------------------------------------------
\* The Progression Table.

\* The action reached from Unknown by n applications of calculateNext.
RECURSIVE Walk(_)
Walk(n) ==
    IF n = 0
    THEN NodeActionUnknown
    ELSE Then(Walk(n - 1), LAMBDA action : calculateNext(action).next)

\* C11: Next(a) # a for every non-terminal action of the forward list;
\* applying Next repeatedly from Unknown visits Reset, Stabilize,
\* PrepareUpdate, PerformUpdate, RebootUpdate in that order and then stays at
\* RebootUpdate; for a token not in the table Next fails with
\* UnrecognizedAction and returns the zero Action.
C11_ProgressionTable ==
    /\ op = "calculateNext" =>
        /\ (ProgressionIndex(arg.Wanted) \in 1..(Len(Progression) - 1) =>
                (retA # arg.Wanted /\ retB = FALSE))
        /\ (arg.Wanted = NodeActionRebootUpdate =>
                (retA = NodeActionRebootUpdate /\ retB = FALSE))
        /\ ((arg.Wanted # NodeActionUnknown /\ ProgressionIndex(arg.Wanted) = 0) =>
                (retB = TRUE /\ retA = ZeroAction))
    /\ [n \in 1..7 |-> Walk(n)] =
           <<NodeActionReset, NodeActionStablize, NodeActionPrepareUpdate,
             NodeActionPerformUpdate, NodeActionRebootUpdate,
             NodeActionRebootUpdate, NodeActionRebootUpdate>>

C11_Witness ==
    /\ op = "calculateNext"
    /\ arg.Wanted \in BogusTokens
    /\ retB = TRUE
    /\ retA = ZeroAction

-----------------------------------------------------------------------------
\* Projection and the predicates.

\* C12: for an Intent whose State is neither "" nor Unknown and whose Wanted
\* is Unknown or a recognized action, Projected() returns the receiver with
\* Wanted replaced by its Progression Table successor, whether or not Active
\* reached Wanted or the step errored.
C12_ProjectedFrame ==
    (op = "Projected" /\ ~ArgUnknownState /\ Recognized(arg.Wanted)) =>
        retI = [arg EXCEPT !.Wanted = calculateNext(arg.Wanted).next]

\* Projected() on an errored Intent whose Active has not reached Wanted.
C12_Witness ==
    /\ op = "Projected"
    /\ arg.State = NodeStateError
    /\ arg.Wanted = NodeActionPrepareUpdate
    /\ arg.Active = NodeActionReset
    /\ retI.Wanted = NodeActionPerformUpdate
    /\ retI.Active = NodeActionReset
    /\ retI.State = NodeStateError

\* C15: InProgress() and Stuck() are never both true, and InProgress() and
\* Realized() are never both true.
C15_InProgressExcludes ==
    /\ (op = "Stuck" /\ InProgress(Mem(arg), 1).r) => retB = FALSE
    /\ (op = "InProgress" /\ retB = TRUE) =>
            (~Realized(Mem(arg), 1) /\ ~Stuck(Mem(arg), 1).r)
    /\ (op = "Realized" /\ retB = TRUE) => ~InProgress(Mem(arg), 1).r

C15_Witness ==
    /\ op = "Stuck"
    /\ retB = FALSE
    /\ InProgress(Mem(arg), 1).r
    /\ arg.Active = NodeActionReset
    /\ arg.Wanted = NodeActionStablize

ArgBusy ==
    arg.State \notin {NodeStateReady, "", NodeStateUnknown, NodeStateError}

\* C16: for an Intent whose State is a busy token (not Ready, "", Unknown or
\* Error), Actionable() equals Stuck(); a busy Intent that is InProgress() is
\* not Actionable().
C16_BusyActionableIsStuck ==
    (op = "Actionable" /\ ArgBusy) =>
        /\ retB = Stuck(Mem(arg), 1).r
        /\ (InProgress(Mem(arg), 1).r => retB = FALSE)

C16_Witness ==
    /\ op = "Actionable"
    /\ arg.State = NodeStateBusy
    /\ arg.Active = NodeActionPrepareUpdate
    /\ arg.Wanted = NodeActionPerformUpdate
    /\ InProgress(Mem(arg), 1).r
    /\ retB = FALSE

\* Actionable() on a busy Intent that is Stuck.
C16_WitnessStuck ==
    /\ op = "Actionable"
    /\ ArgBusy
    /\ arg.Active = NodeActionPrepareUpdate
    /\ arg.Wanted = NodeActionRebootUpdate
    /\ retB = TRUE

-----------------------------------------------------------------------------
\* Sequences of transforms.

KnownPair(i) == i.Wanted \in KnownActions /\ i.Active \in KnownActions

\* C13: from an Intent whose Wanted and Active are each Unknown or an action
\* of the forward list, any sequence of Projected(), Reset(), Clone() and
\* agent reports of such an Active keeps Wanted and Active in that set.
C13_KnownActionsKept == [][KnownPair(intent) => KnownPair(intent')]_vars

\* Projected() moved a known Intent to the last element of the list.
C13_Witness ==
    /\ op = "Seq.Projected"
    /\ KnownPair(arg)
    /\ arg.Wanted = NodeActionPerformUpdate
    /\ arg.State = NodeStateBusy
    /\ intent.Wanted = NodeActionRebootUpdate
    /\ KnownPair(intent)

\* One step of a sequence, for C17.
C17_Step ==
    /\ (op = "Seq.Projected" /\ ArgUnknownState /\ op' = "Seq.Projected")
            => intent' = intent
    /\ (op = "Seq.Reset" /\ op' = "Seq.Reset") => intent' = intent
    /\ (intent.State \in {"", NodeStateUnknown} /\ op' = "Seq.Projected")
            => intent'.Wanted = NodeActionReset

\* C17: for an Intent i whose State is "" or Unknown, i.Projected().Projected()
\* equals i.Projected() in all five fields; i.Reset().Reset() equals
\* i.Reset(); Projected() cannot move Wanted past Reset while the State is ""
\* or Unknown.
C17_ProjectionIdempotent == [][C17_Step]_vars

\* Projected() was applied to the result of Projected() and returned it again.
C17_Witness ==
    /\ op = "Seq.Projected"
    /\ ArgUnknownState
    /\ arg.Wanted = NodeActionReset
    /\ arg.Active = NodeActionUnknown
    /\ intent = arg

-----------------------------------------------------------------------------
\* The two disjuncts of Stuck.

\* Intents all of whose tokens belong to the enumerations of package marker.
RecognizedIntents ==
    [NodeName : NodeNames, Wanted : KnownActions, Active : KnownActions,
     State : {"", NodeStateUnknown, NodeStateReady, NodeStateError, NodeStateBusy},
     UpdateAvailable : {NodeUpdateAvailable, NodeUpdateUnavailable}]

\* Active != Wanted AND NOT InProgress()
DivergedWithoutProgress(i) ==
    i.Active # i.Wanted /\ ~InProgress(Mem(i), 1).r

\* Wanted differs from the Wanted of the forward projection from Active.
NotNextAfterActive(i) ==
    \E pa \in {projectActive(Mem(i), 1)} : i.Wanted # pa.m.h[pa.r].Wanted

\* C18: neither disjunct of Stuck() subsumes the other over Intents with
\* recognized tokens: some Intent (of the node at hand) has Active != Wanted
\* and is not InProgress() while Wanted is the projection from Active, and
\* some Intent has Wanted different from that projection while (Active !=
\* Wanted AND NOT InProgress()) is false.
C18_NeitherSubsumes ==
    /\ \E i \in RecognizedIntents :
            /\ i.NodeName = arg.NodeName
            /\ DivergedWithoutProgress(i)
            /\ ~NotNextAfterActive(i)
    /\ \E i \in RecognizedIntents :
            /\ i.NodeName = arg.NodeName
            /\ NotNextAfterActive(i)
            /\ ~DivergedWithoutProgress(i)

\* Stuck() by the first disjunct alone.
C18_Witness ==
    /\ op = "Stuck"
    /\ retB = TRUE
    /\ arg \in RecognizedIntents
    /\ DivergedWithoutProgress(arg)
    /\ ~NotNextAfterActive(arg)

\* Stuck() by the second disjunct alone.
C18_WitnessSecond ==
    /\ op = "Stuck"
    /\ retB = TRUE
    /\ arg \in RecognizedIntents
    /\ NotNextAfterActive(arg)
    /\ ~DivergedWithoutProgress(arg)

====
